---- MODULE Spec2Model ----
(***************************************************************************)
(* A model of dkron's badger-backed Store (src/dkron/store.go).            *)
(*                                                                         *)
(* The committed content of the badger database is one function `db` from  *)
(* key strings ("jobs/<name>", "executions/<job>/<key>") to decoded        *)
(* records.  Every Store method is an operator from a database (and its    *)
(* arguments) to the database it leaves behind and the error it returns.   *)
(*                                                                         *)
(* Transactions.  s.db.Update(fn) buffers the writes fn makes through its  *)
(* own txn and commits them when fn returns nil; it discards them when fn  *)
(* returns an error.  The Store methods that fn calls (s.GetJob, s.SetJob, *)
(* s.SetExecution, ...) do not use fn's txn: each opens a transaction of   *)
(* its own (s.db.View / s.db.Update), so it reads the committed database   *)
(* and commits on its own, before the enclosing fn returns.  The enclosing *)
(* transactions of SetJob, DeleteJob and SetExecutionDone read nothing     *)
(* through their txn, so badger's commit-time conflict check (which looks  *)
(* at the keys a transaction has read) cannot fail them.                   *)
(*                                                                         *)
(* Specifications.  Spec, SpecStatus, SpecExec, SpecDelete and SpecDeps    *)
(* make the calls one at a time, each call one step.  SpecDone, SpecCount  *)
(* and SpecConc let two goroutines be inside SetJob and SetExecutionDone   *)
(* together, each transaction one step.  SpecLife adds the goroutine of    *)
(* runGcLoop and Shutdown.                                                 *)
(***************************************************************************)
EXTENDS Integers, Sequences, FiniteSets, TLC

VARIABLES
    db,     \* committed key/value content of the badger database
    last,   \* the Store call that returned last: [op, err]
    calls,  \* per client goroutine, the Store call it is in the middle of
    gone,   \* names whose DeleteJob returned nil with no SetJob begun since
    open,   \* FALSE once db.Close has run
    closed, \* Store.closed
    gc      \* where the goroutine of runGcLoop stands

vars == <<db, last, calls, gone, open, closed, gc>>

\* what the calls made one at a time leave alone
clients == <<calls, gone>>
lifecycle == <<open, closed, gc>>

(***************************************************************************)
(* Bounds of the model.                                                    *)
(***************************************************************************)
\* longest DependentJobs list a call may leave behind (guard on the calls)
MaxDeps == 2
\* largest SuccessCount / ErrorCount a call may leave behind
MaxCount == 2
\* MaxExecutions of store.go:22 is 100; the model keeps this many per job
MaxExecutions == 2
\* StartedAt of the executions saved ranges over 1..MaxStart
MaxStart == 3
\* ticks of the model's clock per second (a time.Time has 10^9)
TicksPerSecond == 2

(***************************************************************************)
(* Errors.                                                                 *)
(***************************************************************************)
Nil == "nil"
ErrKeyNotFound == "badger.ErrKeyNotFound"
ErrSameParent == "ErrSameParent"
ErrNoParent == "ErrNoParent"
ErrParentJobNotFound == "ErrParentJobNotFound"
ErrScheduleParse == "ErrScheduleParse"
ErrWrongConcurrency == "ErrWrongConcurrency"
ErrUnknownTimeZone == "unknown time zone"
ErrExecutionDoneForDeletedJob == "ErrExecutionDoneForDeletedJob"
ErrTooManyUpdateConflicts == "ErrTooManyUpdateConflicts"

\* a nil *Job
NilJob == [nil |-> TRUE]

ConcurrencyAllow == "allow"
ConcurrencyForbid == "forbid"

(***************************************************************************)
(* Byte strings and keys.                                                  *)
(***************************************************************************)
\* bytes.HasPrefix, as badger's ValidForPrefix applies it
HasPrefix(s, p) == Len(s) >= Len(p) /\ SubSeq(s, 1, Len(p)) = p

\* strings.TrimSuffix(s, suffix)
TrimSuffix(s, suffix) ==
    IF Len(s) >= Len(suffix) /\ SubSeq(s, Len(s) - Len(suffix) + 1, Len(s)) = suffix
    THEN SubSeq(s, 1, Len(s) - Len(suffix))
    ELSE s

isDirectoryKey(key) == Len(key) > 0 /\ SubSeq(key, Len(key), Len(key)) = "/"

trimDirectoryKey(key) ==
    IF isDirectoryKey(key) THEN SubSeq(key, 1, Len(key) - 1) ELSE key

JobKey(name) == "jobs/" \o name

\* txn.Set / txn.Delete once committed
Put(d, k, v) == [x \in DOMAIN d \cup {k} |-> IF x = k THEN v ELSE d[x]]
Remove(d, k) == [x \in DOMAIN d \ {k} |-> d[x]]

Result(d, e) == [db |-> d, err |-> e]

(***************************************************************************)
(* Jobs.                                                                   *)
(***************************************************************************)
\* cron.Parse: the schedules the parser accepts, among those the model uses
CronParses(schedule) == schedule \in {"@every 1m"}

\* time.LoadLocation: the zones that load, among those the model uses
LoadLocationOK(timezone) == timezone \in {"UTC"}

validateTimeZone(timezone) ==
    IF timezone = "" THEN Nil
    ELSE IF LoadLocationOK(timezone) THEN Nil ELSE ErrUnknownTimeZone

\* validateJob without the test of store.go:259
validateJob_NoSelfCheck(job) ==
    IF job.ParentJob = "" /\ ~CronParses(job.Schedule) THEN ErrScheduleParse
    ELSE IF job.Concurrency # ConcurrencyAllow /\ job.Concurrency # ConcurrencyForbid
            /\ job.Concurrency # ""
    THEN ErrWrongConcurrency
    ELSE validateTimeZone(job.Timezone)

validateJob(job) ==
    IF job.ParentJob = job.Name THEN ErrSameParent
    ELSE IF job.ParentJob = "" /\ ~CronParses(job.Schedule) THEN ErrScheduleParse
    ELSE IF job.Concurrency # ConcurrencyAllow /\ job.Concurrency # ConcurrencyForbid
            /\ job.Concurrency # ""
    THEN ErrWrongConcurrency
    ELSE validateTimeZone(job.Timezone)

\* GetJob: a read-only view of the committed database
GetJob(d, name) ==
    IF JobKey(name) \in DOMAIN d
    THEN [job |-> d[JobKey(name)], err |-> Nil]
    ELSE [job |-> NilJob, err |-> ErrKeyNotFound]

\* Job.GetParent: loads the job named by ParentJob through the store
GetParent(d, j) ==
    IF j.Name = j.ParentJob THEN [job |-> NilJob, err |-> ErrSameParent]
    ELSE IF j.ParentJob = "" THEN [job |-> NilJob, err |-> ErrNoParent]
    ELSE LET g == GetJob(d, j.ParentJob)
         IN IF g.err = ErrKeyNotFound
            THEN [job |-> NilJob, err |-> ErrParentJobNotFound]
            ELSE g

\* the merge of store.go:111-129 without the status fields of 114-125
MergeStored_NoMax(ej, job, copyDependentJobs) ==
    [job EXCEPT
        !.DependentJobs = IF Len(ej.DependentJobs) # 0 /\ copyDependentJobs
                          THEN ej.DependentJobs ELSE @]

\* the merge of store.go:111-129 with the test of 126 made on the incoming
\* job: the stored dependents are taken when the incoming job has none
MergeStored_IncomingEmpty(ej, job, copyDependentJobs) ==
    [job EXCEPT
        !.LastError = IF ej.LastError > @ THEN ej.LastError ELSE @,
        !.LastSuccess = IF ej.LastSuccess > @ THEN ej.LastSuccess ELSE @,
        !.SuccessCount = IF ej.SuccessCount > @ THEN ej.SuccessCount ELSE @,
        !.ErrorCount = IF ej.ErrorCount > @ THEN ej.ErrorCount ELSE @,
        !.DependentJobs = IF Len(@) = 0 /\ copyDependentJobs
                          THEN ej.DependentJobs ELSE @]

\* store.go:111-129: the status fields and the dependents SetJob takes over
\* from the stored job ej
MergeStored(ej, job, copyDependentJobs) ==
    [job EXCEPT
        !.LastError = IF ej.LastError > @ THEN ej.LastError ELSE @,
        !.LastSuccess = IF ej.LastSuccess > @ THEN ej.LastSuccess ELSE @,
        !.SuccessCount = IF ej.SuccessCount > @ THEN ej.SuccessCount ELSE @,
        !.ErrorCount = IF ej.ErrorCount > @ THEN ej.ErrorCount ELSE @,
        !.DependentJobs = IF Len(ej.DependentJobs) # 0 /\ copyDependentJobs
                          THEN ej.DependentJobs ELSE @]

\* store.go:174-179: every occurrence of name dropped
RECURSIVE WithoutName(_, _)
WithoutName(djs, name) ==
    IF djs = <<>> THEN <<>>
    ELSE IF Head(djs) = name THEN WithoutName(Tail(djs), name)
    ELSE <<Head(djs)>> \o WithoutName(Tail(djs), name)

RECURSIVE SetJob(_, _, _)
RECURSIVE SetJobCommit(_, _, _, _)
RECURSIVE removeFromParent(_, _)
RECURSIVE addToParent(_, _)

\* store.go:111-156, SetJob once GetJob has returned ej: the record is
\* buffered, removeFromParent / addToParent commit theirs, and the
\* transaction commits last
SetJobCommit(d, job, ej, copyDependentJobs) ==
    LET merged == IF ej # NilJob THEN MergeStored(ej, job, copyDependentJobs) ELSE job
        parentChanged == \/ ej = NilJob /\ merged.ParentJob # ""
                         \/ ej # NilJob /\ merged.ParentJob # ej.ParentJob
        removed == IF parentChanged THEN removeFromParent(d, ej) ELSE Result(d, Nil)
        added == IF parentChanged /\ removed.err = Nil
                 THEN addToParent(removed.db, merged)
                 ELSE removed
    IN IF added.err # Nil
       THEN added
       ELSE Result(Put(added.db, JobKey(job.Name), merged), Nil)

\* SetJob: validation, the stored job read, then the transaction
SetJob(d, job, copyDependentJobs) ==
    LET verr == validateJob(job) IN
    IF verr # Nil THEN Result(d, verr)
    ELSE SetJobCommit(d, job, GetJob(d, job.Name).job, copyDependentJobs)

removeFromParent(d, child) ==
    IF child = NilJob THEN Result(d, Nil)
    ELSE IF child.ParentJob = "" THEN Result(d, Nil)
    ELSE LET p == GetParent(d, child)
         IN IF p.err # Nil THEN Result(d, p.err)
            ELSE SetJob(d, [p.job EXCEPT !.DependentJobs = WithoutName(@, child.Name)],
                        FALSE)

addToParent(d, child) ==
    IF child.ParentJob = "" THEN Result(d, Nil)
    ELSE LET p == GetParent(d, child)
         IN IF p.err # Nil THEN Result(d, p.err)
            ELSE SetJob(d, [p.job EXCEPT !.DependentJobs = Append(@, child.Name)], FALSE)

\* store.go:395-404: every listed child loaded, its ParentJob cleared, saved
RECURSIVE orphanChildren(_, _)
orphanChildren(d, djs) ==
    IF djs = <<>> THEN Result(d, Nil)
    ELSE LET g == GetJob(d, Head(djs))
         IN IF g.err # Nil THEN Result(d, g.err)
            ELSE LET saved == SetJob(d, [g.job EXCEPT !.ParentJob = ""], FALSE)
                 IN IF saved.err # Nil THEN saved
                    ELSE orphanChildren(saved.db, Tail(djs))

\* DeleteExecutions: the scan runs over the keys that start with jobName
\* itself.  With no such key the empty transaction is committed.  With one,
\* txn.Delete buffers the deletion of the first and returns nil, which is
\* not ErrTxnTooBig, so the function returns that nil before any Commit:
\* the buffered deletion is never applied.  Every transaction is new when
\* its one Delete is made, and badger reports ErrTxnTooBig only for a
\* transaction that already holds a batch of entries, so the branches after
\* store.go:635 (the Commit, ErrConflict and the next attempt) are never
\* taken and the call ends in its first attempt.
DeleteExecutions(d, jobName) ==
    LET prefix == jobName
        scanned == {k \in DOMAIN d : HasPrefix(k, prefix)}
        \* the deletions txn holds when the function returns
        buffered == IF scanned = {} THEN {} ELSE {CHOOSE k \in scanned : TRUE}
        \* txn.Commit (store.go:653) is reached only by a scan that found no key
        commits == scanned = {}
    IN Result(IF commits THEN [k \in DOMAIN d \ buffered |-> d[k]] ELSE d, Nil)

\* DeleteJob: one transaction that buffers only the deletion of jobs/<name>;
\* the parent, the children and the executions are handled by calls that
\* commit on their own
DeleteJob(d, name) ==
    LET g == GetJob(d, name)
        j == g.job
    IN IF g.err # Nil THEN Result(d, g.err)
       ELSE
         LET detached == IF j.ParentJob # "" THEN removeFromParent(d, j)
                         ELSE Result(d, Nil)
             orphaned == IF detached.err # Nil THEN detached
                         ELSE orphanChildren(detached.db, j.DependentJobs)
             cleared == IF orphaned.err # Nil THEN orphaned
                        ELSE DeleteExecutions(orphaned.db, name)
         IN IF cleared.err # Nil THEN cleared
            ELSE Result(Remove(cleared.db, JobKey(name)), Nil)

(***************************************************************************)
(* Executions.                                                             *)
(***************************************************************************)
\* a time.Time (ticks since the zero time) as a protobuf Timestamp, and back
TimestampProto(t) == [Seconds |-> t \div TicksPerSecond, Nanos |-> t % TicksPerSecond]
TimestampTime(ts) == ts.Seconds * TicksPerSecond + ts.Nanos

\* Execution.ToProto / NewExecutionFromProto
ExecutionToProto(e) ==
    [e EXCEPT !.StartedAt = TimestampProto(@), !.FinishedAt = TimestampProto(@)]
ExecutionFromProto(p) ==
    [p EXCEPT !.StartedAt = TimestampTime(@), !.FinishedAt = TimestampTime(@)]

\* Execution.Key: the start time and the node
Key(e) == ToString(e.StartedAt) \o "-" \o e.NodeName

ExecutionKey(e) == "executions/" \o e.JobName \o "/" \o Key(e)

\* list without the test of store.go:469
list_NoRootCheck(d, prefixArg, checkRoot) ==
    LET prefix == TrimSuffix(prefixArg, "/")
        scanned == {k \in DOMAIN d : HasPrefix(k, prefix)}
    IN [kvs |-> {[Key |-> k, Value |-> d[k]] :
                   k \in {x \in scanned : trimDirectoryKey(x) # prefix}},
        err |-> Nil]

\* list: the key/value pairs under a prefix, ErrKeyNotFound when checkRoot
\* is set and no key has the prefix
list(d, prefixArg, checkRoot) ==
    LET prefix == TrimSuffix(prefixArg, "/")
        scanned == {k \in DOMAIN d : HasPrefix(k, prefix)}
        found == scanned # {}
        kvs == {[Key |-> k, Value |-> d[k]] :
                   k \in {x \in scanned : trimDirectoryKey(x) # prefix}}
    IN IF ~found /\ checkRoot THEN [kvs |-> {}, err |-> ErrKeyNotFound]
       ELSE [kvs |-> kvs, err |-> Nil]

unmarshalExecutions(kvs) == {ExecutionFromProto(kv.Value) : kv \in kvs}

GetExecutions(d, jobName) ==
    LET l == list(d, "executions/" \o jobName, TRUE)
    IN IF l.err # Nil THEN [execs |-> {}, err |-> l.err]
       ELSE [execs |-> unmarshalExecutions(l.kvs), err |-> Nil]

GetGroupedExecutions(d, jobName) ==
    LET r == GetExecutions(d, jobName)
        byGroup == {e.Group : e \in r.execs}
    IN IF r.err # Nil THEN [groups |-> <<>>, byGroup |-> {}, err |-> r.err]
       ELSE [groups |-> [g \in byGroup |-> {e \in r.execs : e.Group = g}],
             byGroup |-> byGroup, err |-> Nil]

\* byGroup[0] after sort.Sort(sort.Reverse(byGroup))
FirstDescending(S) == CHOOSE g \in S : \A h \in S : h <= g

GetLastExecutionGroup(d, jobName) ==
    LET r == GetGroupedExecutions(d, jobName)
    IN IF r.err # Nil THEN [execs |-> {}, err |-> r.err]
       ELSE IF r.byGroup # {} THEN [execs |-> r.groups[FirstDescending(r.byGroup)],
                                     err |-> Nil]
       ELSE [execs |-> {}, err |-> Nil]

GetExecutionGroup(d, execution) ==
    LET r == GetExecutions(d, execution.JobName)
    IN IF r.err # Nil THEN r
       ELSE [execs |-> {ex \in r.execs : ex.Group = execution.Group}, err |-> Nil]

\* store.go:562: the stored execution wins when it finished in a later second
\* the comparison of store.go:562 on the whole timestamps
StoredIsMoreRecent_Ticks(p, pbe) ==
    TimestampTime(p.FinishedAt) > TimestampTime(pbe.FinishedAt)

StoredIsMoreRecent(p, pbe) == p.FinishedAt.Seconds > pbe.FinishedAt.Seconds

\* store.go:544-567: the transaction that writes the execution
writeExecution(d, execution) ==
    LET pbe == ExecutionToProto(execution)
        key == ExecutionKey(execution)
    IN IF key \in DOMAIN d /\ StoredIsMoreRecent(d[key], pbe) THEN d
       ELSE Put(d, key, pbe)

\* the selection of store.go:585-591 with the order reversed
Overflow_Newest(execs) ==
    IF Cardinality(execs) <= MaxExecutions THEN {{}}
    ELSE {S \in SUBSET execs :
            /\ Cardinality(S) = Cardinality(execs) - MaxExecutions
            /\ \A x \in S, y \in execs \ S : x.StartedAt >= y.StartedAt}

\* store.go:585-591: the executions that sort.Slice may put in front of the
\* last MaxExecutions ones; executions that started together may come in
\* either order
Overflow(execs) ==
    IF Cardinality(execs) <= MaxExecutions THEN {{}}
    ELSE {S \in SUBSET execs :
            /\ Cardinality(S) = Cardinality(execs) - MaxExecutions
            /\ \A x \in S, y \in execs \ S : x.StartedAt <= y.StartedAt}

\* the victims SetExecution may pick once execution is written
Victims(d, execution) ==
    Overflow(GetExecutions(writeExecution(d, execution), execution.JobName).execs)

\* store.go:591-605: each victim deleted in a transaction of its own
deleteOverflowed(d, victims) ==
    [k \in DOMAIN d \ {ExecutionKey(x) : x \in victims} |-> d[k]]

\* SetExecution, with the victims its sort selected
SetExecution(d, execution, victims) ==
    Result(deleteOverflowed(writeExecution(d, execution), victims), Nil)

\* store.go:239-245
CountResult(job, execution) ==
    IF execution.Success
    THEN [job EXCEPT !.LastSuccess = execution.FinishedAt, !.SuccessCount = @ + 1]
    ELSE [job EXCEPT !.LastError = execution.FinishedAt, !.ErrorCount = @ + 1]

\* SetExecutionDone that saves the execution before it looks at the error
\* of GetJob, and returns that error as it is
SetExecutionDone_SaveFirst(d, execution, victims) ==
    LET g == GetJob(d, execution.JobName)
        saved == SetExecution(d, execution, victims)
    IN IF g.err # Nil THEN Result(saved.db, g.err)
       ELSE SetJob(saved.db, CountResult(g.job, execution), FALSE)

\* SetExecutionDone: its own transaction writes nothing; SetExecution and
\* SetJob commit theirs one after the other
SetExecutionDone(d, execution, victims) ==
    LET g == GetJob(d, execution.JobName)
    IN IF g.err = ErrKeyNotFound THEN Result(d, ErrExecutionDoneForDeletedJob)
       ELSE IF g.err # Nil THEN Result(d, g.err)
       ELSE LET saved == SetExecution(d, execution, victims)
            IN IF saved.err # Nil THEN saved
               ELSE SetJob(saved.db, CountResult(g.job, execution), FALSE)

(***************************************************************************)
(* The calls a client makes, one at a time.                                *)
(***************************************************************************)
\* the client goroutines that may be inside a Store call together
Procs == {1, 2}

\* a goroutine that is in no call
Idle == [op |-> "idle"]

Job(name, parent, djs, schedule, concurrency, timezone, sc, ec, ls, le) ==
    [Name |-> name, ParentJob |-> parent, DependentJobs |-> djs,
     Schedule |-> schedule, Concurrency |-> concurrency, Timezone |-> timezone,
     SuccessCount |-> sc, ErrorCount |-> ec, LastSuccess |-> ls, LastError |-> le]

Execution(jobName, startedAt, finishedAt, success, group, node) ==
    [JobName |-> jobName, StartedAt |-> startedAt, FinishedAt |-> finishedAt,
     Success |-> success, Group |-> group, NodeName |-> node]

JobKeys(d) == {k \in DOMAIN d : HasPrefix(k, "jobs/")}
ExecutionKeys(d) == {k \in DOMAIN d : HasPrefix(k, "executions/")}
StoredJobs(d) == {d[k] : k \in JobKeys(d)}
ExecutionsOf(d, jobName) == {k \in ExecutionKeys(d) : d[k].JobName = jobName}

\* the calls that keep the database within the bounds of the model
Bounded(d) ==
    \A j \in StoredJobs(d) :
        /\ Len(j.DependentJobs) <= MaxDeps
        /\ j.SuccessCount <= MaxCount
        /\ j.ErrorCount <= MaxCount

Call(op, err) == [op |-> op, err |-> err]

SetJobCall(job, copyDependentJobs) ==
    LET r == SetJob(db, job, copyDependentJobs) IN
    /\ Bounded(r.db)
    /\ db' = r.db
    /\ last' = Call("SetJob", r.err)
    /\ UNCHANGED <<clients, lifecycle>>

DeleteJobCall(name) ==
    LET r == DeleteJob(db, name) IN
    /\ Bounded(r.db)
    /\ db' = r.db
    /\ last' = Call("DeleteJob", r.err)
    /\ UNCHANGED <<clients, lifecycle>>

DeleteExecutionsCall(jobName) ==
    LET r == DeleteExecutions(db, jobName) IN
    /\ db' = r.db
    /\ last' = Call("DeleteExecutions", r.err)
    /\ UNCHANGED <<clients, lifecycle>>

SetExecutionCall(execution) ==
    \E victims \in Victims(db, execution) :
        LET r == SetExecution(db, execution, victims) IN
        /\ db' = r.db
        /\ last' = Call("SetExecution", r.err)
        /\ UNCHANGED <<clients, lifecycle>>

SetExecutionDoneCall(execution) ==
    \E victims \in Victims(db, execution) :
        LET r == SetExecutionDone(db, execution, victims) IN
        /\ Bounded(r.db)
        /\ db' = r.db
        /\ last' = Call("SetExecutionDone", r.err)
        /\ UNCHANGED <<clients, lifecycle>>

\* NewStore: the database opened, the GC goroutine started, no call made
Init ==
    /\ db = <<>>
    /\ last = Call("NewStore", Nil)
    /\ calls = [p \in Procs |-> Idle]
    /\ gone = {}
    /\ open = TRUE
    /\ closed = FALSE
    /\ gc = "ticker"

(***************************************************************************)
(* Spec: the job repository.  Three jobs that can form the chain           *)
(* p <- a <- ab, with the parent, the dependents and the schedule a caller *)
(* may send, and one execution that finishes for job a.                    *)
(***************************************************************************)
JobNames == {"p", "a", "ab"}
Schedules == {"@every 1m", "bogus"}
DependentChoices == {<<>>, <<"ab">>}

\* the parents a caller gives a job: none, itself, or a job up the chain
ParentChoices(name) ==
    IF name = "p" THEN {"", "p"}
    ELSE IF name = "a" THEN {"", "a", "p"}
    ELSE {"", "ab", "a", "p"}

GraphJobs ==
    UNION {{Job(n, par, djs, sch, ConcurrencyAllow, "", 0, 0, 0, 0) :
              par \in ParentChoices(n), djs \in DependentChoices, sch \in Schedules} :
           n \in JobNames}

\* jobs with a concurrency or a time zone of their own, valid or not
OptionJobs ==
    {Job("a", "", <<>>, "@every 1m", c, tz, 0, 0, 0, 0) :
        c \in {ConcurrencyAllow, "sometimes"}, tz \in {"", "Mars/Olympus"}}

JobInputs == GraphJobs \cup OptionJobs

DoneInputs == {Execution("a", 1, 1, TRUE, 1, "n1")}

Next ==
    \/ \E job \in JobInputs, copy \in BOOLEAN : SetJobCall(job, copy)
    \/ \E name \in JobNames : DeleteJobCall(name)
    \/ \E execution \in DoneInputs : SetExecutionDoneCall(execution)

Spec == Init /\ [][Next]_vars

(***************************************************************************)
(* Claims about the job repository.                                        *)
(***************************************************************************)
Range(seq) == {seq[i] : i \in 1..Len(seq)}
Count(seq, x) == Cardinality({i \in 1..Len(seq) : seq[i] = x})
Stored(d, name) == JobKey(name) \in DOMAIN d

\* every stored parent lists exactly the stored jobs that name it as parent
GraphConsistent(d) ==
    \A P \in StoredJobs(d) :
        Range(P.DependentJobs) = {j.Name : j \in {x \in StoredJobs(d) : x.ParentJob = P.Name}}

\* a is stored as the only child of p and as the parent of its only child ab
ChainStored(d) ==
    /\ Stored(d, "p") /\ Stored(d, "a") /\ Stored(d, "ab")
    /\ d[JobKey("p")].DependentJobs = <<"a">>
    /\ d[JobKey("a")].ParentJob = "p"
    /\ d[JobKey("a")].DependentJobs = <<"ab">>
    /\ d[JobKey("ab")].ParentJob = "a"
    /\ GraphConsistent(d)

\* C1: whenever a is stored as child of p and parent of ab, DeleteJob(a)
\* returns no error and leaves a absent, ab without parent and p without
\* the dependent a, whatever the schedule of ab is.
C1_CascadingDelete ==
    [][(ChainStored(db) /\ DeleteJobCall("a")) =>
          /\ last'.err = Nil
          /\ GetJob(db', "a").err = ErrKeyNotFound
          /\ Stored(db', "ab") /\ db'[JobKey("ab")].ParentJob = ""
          /\ Stored(db', "p") /\ "a" \notin Range(db'[JobKey("p")].DependentJobs)]_vars

\* C2: after a DeleteJob that returns no error, no execution of the deleted
\* job is left in the store.
C2_DeleteRemovesExecutions ==
    [][\A name \in JobNames :
          (DeleteJobCall(name) /\ last'.err = Nil) => ExecutionsOf(db', name) = {}]_vars

\* C3: in every state, each stored job's DependentJobs names exactly the
\* stored jobs whose ParentJob it is.
C3_DependentsMatchParents == GraphConsistent(db)

\* C4: after a SetJob of a child whose ParentJob is a stored job P returns no
\* error, P.DependentJobs holds the child's name exactly once.
C4_ChildListedOnce ==
    [][\A job \in JobInputs, copy \in BOOLEAN :
          (/\ job.ParentJob # ""
           /\ Stored(db, job.ParentJob)
           /\ SetJobCall(job, copy)
           /\ last'.err = Nil) =>
              /\ Stored(db', job.ParentJob)
              /\ Count(db'[JobKey(job.ParentJob)].DependentJobs, job.Name) = 1]_vars

\* C5: a SetJob or DeleteJob that returns an error leaves every record of the
\* store as it was.
C5_AllOrNothing ==
    [][(last'.op \in {"SetJob", "DeleteJob"} /\ last'.err # Nil) => db' = db]_vars

\* what validateJob is documented to reject
FailsValidation(job) ==
    \/ job.ParentJob = job.Name
    \/ job.ParentJob = "" /\ ~CronParses(job.Schedule)
    \/ job.Concurrency \notin {ConcurrencyAllow, ConcurrencyForbid, ""}
    \/ job.Timezone # "" /\ ~LoadLocationOK(job.Timezone)

\* C7: a SetJob of a job that fails validation returns an error and changes
\* no record, and no stored job is its own parent.
C7_InvalidJobRejected ==
    /\ [](\A j \in StoredJobs(db) : j.ParentJob # j.Name)
    /\ [][\/ last'.err # Nil /\ db' = db
          \/ \A job \in JobInputs, copy \in BOOLEAN :
                ~(FailsValidation(job) /\ SetJobCall(job, copy))]_vars

\* a self-parent upsert of a job that has a stored parent was just refused
C7_Witness ==
    /\ last = Call("SetJob", ErrSameParent)
    /\ \E j \in StoredJobs(db) : j.ParentJob # "" /\ Stored(db, j.ParentJob)

\* C13: a SetExecutionDone for an execution whose job is not stored returns
\* ErrExecutionDoneForDeletedJob and leaves every record as it was: no
\* execution is stored, no job is created or changed.
C13_DoneForDeletedJob ==
    [][(/\ last'.op = "SetExecutionDone"
        /\ \E e \in DoneInputs : ~Stored(db, e.JobName) /\ SetExecutionDoneCall(e)) =>
          /\ last'.err = ErrExecutionDoneForDeletedJob
          /\ db' = db]_vars

\* job a was stored, had an execution reported and was deleted; a later
\* report for it has just been refused
C13_Witness ==
    /\ last = Call("SetExecutionDone", ErrExecutionDoneForDeletedJob)
    /\ ~Stored(db, "a")
    /\ ExecutionsOf(db, "a") # {}

(***************************************************************************)
(* SpecStatus: the status fields.  Job a, alone or under the parent p, is  *)
(* upserted with every counter and timestamp a caller may send, and        *)
(* executions of a finish with either result.                              *)
(***************************************************************************)
StatusTimes == {0, 1}

\* a caller sends the status of its successes or the status of its errors
StatusJobs ==
    {Job("a", par, <<>>, "@every 1m", ConcurrencyAllow, "", sc, 0, ls, 0) :
        par \in {"", "p"}, sc \in 0..MaxCount, ls \in StatusTimes}
    \cup {Job("a", par, <<>>, "@every 1m", ConcurrencyAllow, "", 0, ec, 0, le) :
        par \in {"", "p"}, ec \in 0..MaxCount, le \in StatusTimes}
    \cup {Job("p", "", <<>>, "@every 1m", ConcurrencyAllow, "", 0, 0, 0, 0)}

StatusDone == {Execution("a", 1, 1, s, 1, "n1") : s \in BOOLEAN}

NextStatus ==
    \/ \E job \in StatusJobs, copy \in BOOLEAN : SetJobCall(job, copy)
    \/ \E name \in {"a", "p"} : DeleteJobCall(name)
    \/ \E execution \in StatusDone : SetExecutionDoneCall(execution)

SpecStatus == Init /\ [][NextStatus]_vars

Max(x, y) == IF x > y THEN x ELSE y

\* C6: a SetJob of a stored job leaves each counter at the maximum, and each
\* timestamp at the later, of the stored and the incoming value, and lowers
\* no counter of any job that stays stored.
C6_StatusMergeMax ==
    [][last'.op = "SetJob" =>
          /\ \A k \in JobKeys(db) \cap JobKeys(db') :
                /\ db'[k].SuccessCount >= db[k].SuccessCount
                /\ db'[k].ErrorCount >= db[k].ErrorCount
          /\ \A job \in StatusJobs, copy \in BOOLEAN :
                (/\ last'.err = Nil
                 /\ Stored(db, job.Name)
                 /\ SetJobCall(job, copy)) =>
                    LET old == db[JobKey(job.Name)]
                        new == db'[JobKey(job.Name)]
                    IN /\ new.SuccessCount = Max(old.SuccessCount, job.SuccessCount)
                       /\ new.ErrorCount = Max(old.ErrorCount, job.ErrorCount)
                       /\ new.LastSuccess = Max(old.LastSuccess, job.LastSuccess)
                       /\ new.LastError = Max(old.LastError, job.LastError)]_vars

\* a, stored alone with successes and errors counted, has been upserted with
\* the count of one kind only
C6_Witness ==
    /\ last = Call("SetJob", Nil)
    /\ Stored(db, "a") /\ ~Stored(db, "p")
    /\ db[JobKey("a")].SuccessCount = MaxCount
    /\ db[JobKey("a")].ErrorCount >= 1
    /\ db[JobKey("a")].LastSuccess = 1

(***************************************************************************)
(* SpecExec: the execution repository.  Jobs a and ab (the name of one is  *)
(* a prefix of the other's) are upserted and deleted, and executions of    *)
(* both are saved with the start and finish times a node may report.       *)
(***************************************************************************)
ExecNames == {"a", "ab"}

\* two instants of one second and one of the next
FinishTimes == {0, 1, TicksPerSecond}

\* the execution started first is reported with every finish time, the
\* later ones with one
ExecInputs ==
    UNION {{Execution(n, st, f, TRUE, 1, "n1") :
              f \in IF st = 1 THEN FinishTimes ELSE {TicksPerSecond}} :
           n \in ExecNames, st \in 1..MaxStart}

ExecJobs ==
    {Job(n, "", <<>>, "@every 1m", ConcurrencyAllow, "", 0, 0, 0, 0) : n \in ExecNames}

NextExec ==
    \/ \E execution \in ExecInputs : SetExecutionCall(execution)
    \/ \E job \in ExecJobs : SetJobCall(job, TRUE)
    \/ \E name \in ExecNames : DeleteJobCall(name)

SpecExec == Init /\ [][NextExec]_vars

\* C8: a SetExecution leaves at most MaxExecutions executions of the saved
\* job, and one that adds a new execution to a job that has MaxExecutions
\* leaves MaxExecutions of them, the one removed being one that started
\* earliest.
C8_RetentionCap ==
    [][\A e \in ExecInputs :
          SetExecutionCall(e) =>
            LET before == ExecutionsOf(db, e.JobName)
                after == ExecutionsOf(db', e.JobName)
                all == before \cup {ExecutionKey(e)}
                startedAt(k) == IF k = ExecutionKey(e) THEN e.StartedAt
                                ELSE TimestampTime(db[k].StartedAt)
            IN /\ Cardinality(after) <= MaxExecutions
               /\ (Cardinality(before) = MaxExecutions /\ ExecutionKey(e) \notin before) =>
                     /\ Cardinality(after) = MaxExecutions
                     /\ after \subseteq all
                     /\ \A k \in all \ after, x \in all : startedAt(k) <= startedAt(x)]_vars

\* C9: a SetExecution whose FinishedAt is earlier than the one stored at its
\* key leaves that record as it is; one that finished at the same time or
\* later replaces it.
C9_OutOfOrderGuard ==
    [][\A e \in ExecInputs :
          (ExecutionKey(e) \in DOMAIN db /\ SetExecutionCall(e)) =>
            LET key == ExecutionKey(e)
                stored == TimestampTime(db[key].FinishedAt)
            IN /\ e.FinishedAt < stored => (key \in DOMAIN db' /\ db'[key] = db[key])
               /\ (e.FinishedAt >= stored /\ key \in DOMAIN db') =>
                     db'[key] = ExecutionToProto(e)]_vars

\* C10: for a stored job without stored executions GetExecutions and
\* GetLastExecutionGroup return nothing and no error; ErrKeyNotFound is
\* returned only for a job that is not stored and has no execution.
C10_NoExecutionsNoError ==
    \A n \in ExecNames :
        /\ (Stored(db, n) /\ ExecutionsOf(db, n) = {}) =>
              /\ GetExecutions(db, n) = [execs |-> {}, err |-> Nil]
              /\ GetLastExecutionGroup(db, n) = [execs |-> {}, err |-> Nil]
        /\ GetExecutions(db, n).err = ErrKeyNotFound =>
              (~Stored(db, n) /\ ExecutionsOf(db, n) = {})

NoKeyUnder(d, prefix) == ~\E k \in DOMAIN d : HasPrefix(k, prefix)

\* C10 (amended): GetExecutions returns ErrKeyNotFound exactly when no stored
\* key starts with executions/<job>, whether the job is stored or not, and
\* GetLastExecutionGroup then returns that error too; when a key does, both
\* return executions and no error.
C10_NotFoundWithoutKeys ==
    \A n \in ExecNames :
        IF NoKeyUnder(db, "executions/" \o n)
        THEN /\ GetExecutions(db, n) = [execs |-> {}, err |-> ErrKeyNotFound]
             /\ GetLastExecutionGroup(db, n) = [execs |-> {}, err |-> ErrKeyNotFound]
        ELSE /\ GetExecutions(db, n).err = Nil
             /\ GetExecutions(db, n).execs # {}
             /\ GetLastExecutionGroup(db, n).err = Nil
             /\ GetLastExecutionGroup(db, n).execs # {}

\* job ab is stored with nothing under its prefix, while an execution of job a
\* has just been saved
C10_Witness ==
    /\ last = Call("SetExecution", Nil)
    /\ Stored(db, "ab")
    /\ NoKeyUnder(db, "executions/ab")
    /\ ExecutionsOf(db, "a") # {}

\* C11: GetExecutions(J) returns exactly the stored executions whose JobName
\* is J, and GetExecutionGroup(e) exactly the stored executions of e's job
\* and group, also when J is a proper prefix of another job's name.
C11_ExactlyOwnExecutions ==
    \A n \in ExecNames :
        LET own == {ExecutionFromProto(db[k]) : k \in ExecutionsOf(db, n)}
        IN /\ GetExecutions(db, n).execs = own
           /\ \A e \in ExecInputs :
                 e.JobName = n =>
                    GetExecutionGroup(db, e).execs = {x \in own : x.Group = e.Group}

\* every execution that d holds for a job other than jobName is in e as it is
KeepsOthers(d, e, jobName) ==
    \A k \in ExecutionKeys(d) :
        d[k].JobName # jobName => (k \in DOMAIN e /\ e[k] = d[k])

\* C19: a SetExecution for job J removes and overwrites no execution of
\* another job, and a DeleteJob(J) removes no execution of another job and
\* no record of another job, also when J is a prefix of the other's name.
C19_OtherJobsUntouched ==
    [][/\ \A execution \in ExecInputs :
             SetExecutionCall(execution) => KeepsOthers(db, db', execution.JobName)
       /\ \A name \in ExecNames :
             DeleteJobCall(name) =>
                /\ KeepsOthers(db, db', name)
                /\ JobKeys(db) \ {JobKey(name)} \subseteq JobKeys(db')]_vars

(***************************************************************************)
(* SpecCount and SpecConc: client goroutines inside the store together.    *)
(* Each badger transaction (a View, or an Update up to its commit) is one  *)
(* step; between the transactions of one call the other goroutine may      *)
(* run.  calls[p] holds what goroutine p has read so far.  SetJob and      *)
(* SetExecutionDone read the job in a transaction of GetJob and write it   *)
(* in another that has read nothing, so its commit cannot conflict.        *)
(***************************************************************************)
\* the job the goroutines work on, as a caller sends it
ConcJob == Job("a", "", <<>>, "@every 1m", ConcurrencyAllow, "", 0, 0, 0, 0)

\* the execution goroutine p reports, with its result: each goroutine has
\* one of its own
ConcExecution(p, success) == Execution("a", p, TicksPerSecond, success, 1, "n1")

Quiescent == \A p \in Procs : calls[p] = Idle

\* store.go:93-110: SetJob validates and gets the stored job
SetJobBegin(p, job, copyDependentJobs) ==
    /\ calls[p] = Idle
    /\ LET verr == validateJob(job) IN
       IF verr # Nil
       THEN /\ last' = Call("SetJob", verr)
            /\ UNCHANGED <<db, calls, gone>>
       ELSE /\ calls' = [calls EXCEPT ![p] =
                           [op |-> "SetJob", pc |-> "commit", job |-> job,
                            copy |-> copyDependentJobs,
                            ej |-> GetJob(db, job.Name).job]]
            /\ gone' = gone \ {job.Name}
            /\ UNCHANGED <<db, last>>
    /\ UNCHANGED lifecycle

\* store.go:111-156: the SetJob that p or its SetExecutionDone is in merges
\* the job it got and commits; the call returns
SetJobEnd(p) ==
    /\ calls[p] # Idle
    /\ calls[p].pc = "commit"
    /\ LET c == calls[p]
           r == SetJobCommit(db, c.job, c.ej, c.copy)
       IN /\ Bounded(r.db)
          /\ db' = r.db
          /\ last' = Call(c.op, r.err)
    /\ calls' = [calls EXCEPT ![p] = Idle]
    /\ UNCHANGED <<gone, lifecycle>>

\* store.go:218-232: SetExecutionDone gets the job of an execution that was
\* not reported before
SetExecutionDoneBegin(p, execution) ==
    /\ calls[p] = Idle
    /\ ExecutionKey(execution) \notin DOMAIN db
    /\ LET g == GetJob(db, execution.JobName) IN
       IF g.err # Nil
       THEN /\ last' = Call("SetExecutionDone",
                            IF g.err = ErrKeyNotFound
                            THEN ErrExecutionDoneForDeletedJob ELSE g.err)
            /\ UNCHANGED calls
       ELSE /\ calls' = [calls EXCEPT ![p] =
                           [op |-> "SetExecutionDone", pc |-> "SetExecution",
                            execution |-> execution, job |-> g.job]]
            /\ UNCHANGED last
    /\ UNCHANGED <<db, gone, lifecycle>>

\* store.go:235-245: SetExecution commits the execution; the job read at
\* the start gets its count
SetExecutionDoneSave(p) ==
    /\ calls[p] # Idle
    /\ calls[p].pc = "SetExecution"
    /\ LET c == calls[p] IN
       \E victims \in Victims(db, c.execution) :
          LET r == SetExecution(db, c.execution, victims) IN
          /\ db' = r.db
          /\ calls' = [calls EXCEPT ![p] =
                         [c EXCEPT !.pc = "SetJob",
                                   !.job = CountResult(c.job, c.execution)]]
    /\ UNCHANGED <<last, gone, lifecycle>>

\* store.go:247 and 93-110: the SetJob of SetExecutionDone validates and
\* gets the stored job again
SetExecutionDoneSetJob(p) ==
    /\ calls[p] # Idle
    /\ calls[p].pc = "SetJob"
    /\ LET c == calls[p]
           verr == validateJob(c.job)
       IN IF verr # Nil
          THEN /\ last' = Call("SetExecutionDone", verr)
               /\ calls' = [calls EXCEPT ![p] = Idle]
               /\ UNCHANGED gone
          ELSE /\ calls' = [calls EXCEPT ![p] =
                              [op |-> "SetExecutionDone", pc |-> "commit",
                               execution |-> c.execution, job |-> c.job,
                               copy |-> FALSE,
                               ej |-> GetJob(db, c.job.Name).job]]
               /\ gone' = gone \ {c.job.Name}
               /\ UNCHANGED last
    /\ UNCHANGED <<db, lifecycle>>

\* DeleteJob by a goroutine that the other does not interrupt
DeleteJobAlone(p, name) ==
    /\ calls[p] = Idle
    /\ LET r == DeleteJob(db, name) IN
       /\ db' = r.db
       /\ last' = Call("DeleteJob", r.err)
       /\ gone' = IF r.err = Nil THEN gone \cup {name} ELSE gone
    /\ UNCHANGED <<calls, lifecycle>>

\* SetExecutionDone of the one job by two goroutines, and SetJob by a
\* goroutine that the others do not interrupt
NextDone ==
    \/ \E copy \in BOOLEAN : SetJobCall(ConcJob, copy)
    \/ \E p \in Procs :
          \/ \E success \in BOOLEAN : SetExecutionDoneBegin(p, ConcExecution(p, success))
          \/ SetExecutionDoneSave(p)
          \/ SetExecutionDoneSetJob(p)
          \/ SetJobEnd(p)

SpecDone == Init /\ [][NextDone]_vars

\* SetJob and SetExecutionDone of the one job by two goroutines
NextCount ==
    \E p \in Procs :
        \/ \E copy \in BOOLEAN : SetJobBegin(p, ConcJob, copy)
        \/ SetJobEnd(p)
        \/ \E success \in BOOLEAN : SetExecutionDoneBegin(p, ConcExecution(p, success))
        \/ SetExecutionDoneSave(p)
        \/ SetExecutionDoneSetJob(p)

SpecCount == Init /\ [][NextCount]_vars

\* the same, and DeleteJob
NextConc ==
    \/ NextCount
    \/ \E p \in Procs : DeleteJobAlone(p, ConcJob.Name)

SpecConc == Init /\ [][NextConc]_vars

(***************************************************************************)
(* Claims about concurrent calls.                                          *)
(***************************************************************************)
\* C12: the step that stores an execution reported through SetExecutionDone
\* also stores its job with the count raised and the timestamp set, so no
\* state holds the execution without the job update; and a
\* SetExecutionDone that returns an error leaves its execution unstored.
C12_DoneIsOneTransaction ==
    [][/\ \A k \in ExecutionKeys(db') \ ExecutionKeys(db) :
             LET e == ExecutionFromProto(db'[k])
                 jk == JobKey(e.JobName)
             IN /\ jk \in DOMAIN db /\ jk \in DOMAIN db'
                /\ db'[jk] = CountResult(db[jk], e)
       /\ \A p \in Procs :
             (/\ calls[p] # Idle
              /\ calls[p].op = "SetExecutionDone"
              /\ calls'[p] = Idle
              /\ last'.err # Nil) =>
                 ExecutionKey(calls[p].execution) \notin DOMAIN db']_vars

\* C16: whatever the interleaving of SetJob and SetExecutionDone on one
\* job, no step lowers the stored SuccessCount or ErrorCount of a job that
\* is stored before and after it.
C16_CountersNeverDecrease ==
    [][\A k \in JobKeys(db) \cap JobKeys(db') :
          /\ db'[k].SuccessCount >= db[k].SuccessCount
          /\ db'[k].ErrorCount >= db[k].ErrorCount]_vars

\* C17: once every SetExecutionDone has returned, the SuccessCount of the
\* job, created with the counts 0 and never deleted, is the number of the
\* calls with Success set that returned no error, and its ErrorCount the
\* number of the others.  Each call reports an execution of its own and
\* returns no error once it has stored it, so these numbers are the
\* numbers of stored executions with and without Success.
C17_NoResultLost ==
    (Quiescent /\ Stored(db, ConcJob.Name)) =>
        LET stored == ExecutionsOf(db, ConcJob.Name)
            job == db[JobKey(ConcJob.Name)]
        IN /\ job.SuccessCount = Cardinality({k \in stored : db[k].Success})
           /\ job.ErrorCount = Cardinality({k \in stored : ~db[k].Success})

\* C18: a job whose DeleteJob has returned nil is not found by GetJob as
\* long as no SetJob of it has begun since, also when a SetExecutionDone or
\* a SetJob of it was under way during the delete.
C18_DeletedStaysDeleted ==
    \A name \in gone : GetJob(db, name).err = ErrKeyNotFound

(***************************************************************************)
(* SpecDelete: the bulk deletion.  Jobs a and e are upserted and deleted   *)
(* and have executions saved; DeleteExecutions is called for both names.   *)
(* Every key of an execution starts with the name e.                       *)
(***************************************************************************)
DeleteNames == {"a", "e"}

DeleteJobs ==
    {Job(n, "", <<>>, "@every 1m", ConcurrencyAllow, "", 0, 0, 0, 0) : n \in DeleteNames}

DeleteExecs ==
    {Execution(n, st, TicksPerSecond, TRUE, 1, "n1") : n \in DeleteNames, st \in 1..MaxStart}

NextDelete ==
    \/ \E job \in DeleteJobs : SetJobCall(job, TRUE)
    \/ \E execution \in DeleteExecs : SetExecutionCall(execution)
    \/ \E name \in DeleteNames : DeleteExecutionsCall(name)
    \/ \E name \in DeleteNames : DeleteJobCall(name)

SpecDelete == Init /\ [][NextDelete]_vars

\* C14: DeleteExecutions ends with nil or ErrTooManyUpdateConflicts, and
\* when it returns nil the deletion of every key it scanned (the keys that
\* start with its prefix) has been committed.
C14_SuccessAfterCommit ==
    [][\A name \in DeleteNames :
          DeleteExecutionsCall(name) =>
             /\ last'.err \in {Nil, ErrTooManyUpdateConflicts}
             /\ last'.err = Nil => NoKeyUnder(db', name)]_vars

(***************************************************************************)
(* SpecDeps: the dependents an upsert writes.  Jobs a and ab are upserted  *)
(* with and without a parent; p is upserted without dependents, or, with   *)
(* the concurrency forbid, with a list of dependents that names no job.    *)
(***************************************************************************)
DepsNames == {"p", "a", "ab"}

DepsJobs ==
    {Job("p", "", <<>>, "@every 1m", ConcurrencyAllow, "", 0, 0, 0, 0),
     Job("p", "", <<"x">>, "@every 1m", ConcurrencyForbid, "", 0, 0, 0, 0)}
    \cup {Job("a", par, <<>>, "@every 1m", ConcurrencyAllow, "", 0, 0, 0, 0) :
            par \in {"", "p"}}
    \cup {Job("ab", par, <<>>, "@every 1m", ConcurrencyAllow, "", 0, 0, 0, 0) :
            par \in {"", "a", "p"}}

NextDeps ==
    \/ \E job \in DepsJobs, copy \in BOOLEAN : SetJobCall(job, copy)
    \/ \E name \in DepsNames : DeleteJobCall(name)

SpecDeps == Init /\ [][NextDeps]_vars

\* C15: a SetJob writes the stored DependentJobs only when copyDependentJobs
\* is set and the incoming job has none; when the incoming job has
\* dependents, or copyDependentJobs is not set, the record written has the
\* incoming DependentJobs.
C15_IncomingDependentsKept ==
    [][\A job \in DepsJobs, copy \in BOOLEAN :
          (/\ last'.err = Nil
           /\ job.DependentJobs # <<>> \/ ~copy
           /\ SetJobCall(job, copy)) =>
              db'[JobKey(job.Name)].DependentJobs = job.DependentJobs]_vars

\* C15 (amended): a SetJob writes the stored DependentJobs exactly when
\* copyDependentJobs is set and the stored job has dependents, whatever the
\* incoming job carries; otherwise the record written has the incoming
\* DependentJobs.
C15_StoredDependentsKept ==
    [][\A job \in DepsJobs, copy \in BOOLEAN :
          (last'.err = Nil /\ SetJobCall(job, copy)) =>
              LET key == JobKey(job.Name)
                  keeps == /\ copy
                           /\ key \in DOMAIN db
                           /\ db[key].DependentJobs # <<>>
              IN db'[key].DependentJobs =
                    IF keeps THEN db[key].DependentJobs ELSE job.DependentJobs]_vars

\* p was last upserted with the concurrency forbid, so with the dependent
\* x, and its record lists the child a and not x: the stored list was kept
C15_Witness ==
    /\ last = Call("SetJob", Nil)
    /\ Stored(db, "p")
    /\ db[JobKey("p")].Concurrency = ConcurrencyForbid
    /\ db[JobKey("p")].DependentJobs = <<"a">>

(***************************************************************************)
(* SpecLife: the store from NewStore to Shutdown.  The goroutine of        *)
(* runGcLoop waits for a tick, looks at closed and runs the value-log GC   *)
(* while clients upsert and delete jobs, until Shutdown closes the         *)
(* database.  No call is made on the closed database.                      *)
(***************************************************************************)
\* what RunValueLogGC returns when it rewrote nothing
ErrNoRewrite == "badger.ErrNoRewrite"

\* store.go:73-79: a tick arrives; closed is read under the lock and ends
\* the loop when it is set
GcTick ==
    /\ gc = "ticker"
    /\ gc' = IF closed THEN "exit" ELSE "again"
    /\ UNCHANGED <<db, last, clients, open, closed>>

\* store.go:84-89: one RunValueLogGC, repeated at once when it returns nil;
\* with an error the loop waits for the next tick
RunValueLogGC ==
    /\ gc = "again"
    /\ \E err \in {Nil, ErrNoRewrite} :
          gc' = IF err = Nil THEN "again" ELSE "ticker"
    /\ UNCHANGED <<db, last, clients, open, closed>>

\* store.go:668-670: Shutdown closes the database and does nothing else
Shutdown ==
    /\ open
    /\ open' = FALSE
    /\ last' = Call("Shutdown", Nil)
    /\ UNCHANGED <<db, clients, closed, gc>>

NextLife ==
    \/ open /\ \E job \in DepsJobs, copy \in BOOLEAN : SetJobCall(job, copy)
    \/ open /\ \E name \in DepsNames : DeleteJobCall(name)
    \/ GcTick
    \/ RunValueLogGC
    \/ Shutdown

SpecLife == Init /\ [][NextLife]_vars

\* C20: once Shutdown has been called the store is marked closed, and the
\* first tick of the GC loop after it ends the loop.
C20_ShutdownEndsGcLoop ==
    /\ [](~open => closed)
    /\ [][(~open /\ GcTick) => gc' = "exit"]_vars

====
